---- MODULE Spec2Model ----
\* Model of the segregated-free-list storage allocator of src/mm.c.
\*
\* Memory is the arena of the region provider, one 32-bit word per entry.
\* A pointer is represented by its distance in bytes from the anchor
\* `offset` (0x800000000), which is also the base of the region, so the
\* low 32 bits that PUT stores for a pointer are the pointer itself.  The
\* null pointer and the all-ones pointer -1 that mem_sbrk returns on failure
\* lie outside the arena and are the two negative markers NULL and SBRK_FAIL.
EXTENDS Integers, Sequences, FiniteSets, TLC

\* ---------------------------------------------------------------- constants
ALIGNMENT == 8
WSIZE == 4
DSIZE == 8
CHUNKSIZE == 256
MAXLIST == 12
MINLISTSIZE == 24

NULL == -16
SBRK_FAIL == -1

\* ------------------------------------------------------------------- bounds
\* Size in bytes of the arena of the region provider (MAX_HEAP of memlib).
MaxHeap == 640
\* Largest number of blocks the allocator hands out in one run.
MaxAllocs == 2
\* A word of the arena that nobody has written yet holds 0 or JunkWord.
JunkWord == 90 * 16843009

ArenaWords == (MaxHeap + WSIZE - 1) \div WSIZE

VARIABLES
    mem,            \* the arena: word index -> 32-bit value
    mem_brk,        \* first byte after the region (memlib's mem_brk)
    mem_max_addr,   \* the region provider refuses to grow beyond this byte
    freeblocklist,  \* base of the table of class heads
    heap_listp,     \* the prologue block
    status,         \* "start", "ready", "failed" (mm_init returned -1), "crashed"
    held,           \* the client's live pointers: pointer -> bytes requested
    last,           \* the last call of the client and what it returned
    allocs,         \* number of blocks handed out so far
    wild            \* bytes the last call wrote through NULL or the pointer -1

vars == <<mem, mem_brk, mem_max_addr, freeblocklist, heap_listp, status, held, last, allocs, wild>>

\* The program's globals as one value, threaded through the helper functions,
\* at the start of a call of the client.
Cur == [mem |-> mem, mem_brk |-> mem_brk, mem_max_addr |-> mem_max_addr,
        freeblocklist |-> freeblocklist, heap_listp |-> heap_listp,
        sbrk_calls |-> 0]

\* ------------------------------------------------------------ sequencing
\* The statements of a C function run one after the other:
\* Bind([v \in {e} |-> rest]) is `rest` with v standing for the value of e.
Only(S) == CHOOSE x \in S : TRUE

Bind(f) == Only({g[Only(DOMAIN g)] : g \in {f}})

\* ------------------------------------------------------------ word access
GET(h, p) == h.mem[p \div WSIZE]

PUT(h, p, val) == [h EXCEPT !.mem[p \div WSIZE] = val]

\* size | alloc, for alloc in {0, 1}
PACK(size, alloc) == IF size % 2 = 1 THEN size ELSE size + alloc

GET_SIZE(h, p) == GET(h, p) - (GET(h, p) % 8)

GET_ALLOC(h, p) == GET(h, p) % 2

HDRP(bp) == bp - WSIZE

FTRP(h, bp) == bp + GET_SIZE(h, HDRP(bp)) - DSIZE

NEXT_BLKP(h, bp) == bp + GET_SIZE(h, bp - WSIZE)

PREV_BLKP(h, bp) == bp - GET_SIZE(h, bp - DSIZE)

SUCC(bp) == bp

PRED(bp) == bp + WSIZE

MAX(x, y) == IF x > y THEN x ELSE y

\* Maximum and minimum size of the free list of index n, as documented.
LIST_MAX_SIZE(n) == 16 * (2 ^ n)

LIST_MIN_SIZE(n) == 16 * (2 ^ (n - 1))

\* ------------------------------------------------------- region provider
\* mem_sbrk: the old break, or the pointer -1 with the break unchanged.
\* sbrk_calls counts the calls the current operation has made to it.
mem_sbrk(h, incr) ==
    IF incr < 0 \/ h.mem_brk + incr > h.mem_max_addr
    THEN [h |-> [h EXCEPT !.sbrk_calls = @ + 1], ret |-> SBRK_FAIL]
    ELSE [h |-> [h EXCEPT !.mem_brk = h.mem_brk + incr, !.sbrk_calls = @ + 1],
          ret |-> h.mem_brk]

mem_heap_lo == 0

mem_heap_hi(h) == h.mem_brk - 1

\* ------------------------------------------------------------- class lists
\* The loop `while (index < MAXLIST && size > MINLISTSIZE) { size >>= 1; index++; }`
RECURSIVE class_index(_, _)
class_index(index, size) ==
    IF index < MAXLIST /\ size > MINLISTSIZE
    THEN class_index(index + 1, size \div 2)
    ELSE index

\* insertnode leaving the predecessor link of the old head as it was.
insertnode_no_back_link(h, bp, size) ==
    LET index == class_index(0, size)
        freeblockhead == h.freeblocklist + (WSIZE * index)
        header == GET(h, freeblockhead)
    IN  IF GET(h, freeblockhead) # 0
        THEN Bind([h1 \in {PUT(h, freeblockhead, bp)} |->
             Bind([h2 \in {PUT(h1, PRED(bp), 0)} |->
             PUT(h2, SUCC(bp), header)])])
        ELSE Bind([h1 \in {PUT(h, freeblockhead, bp)} |->
             Bind([h2 \in {PUT(h1, SUCC(bp), 0)} |->
             PUT(h2, PRED(bp), 0)])])

\* insertnode choosing the class of half the size.
insertnode_half_size(h, bp, size) ==
    LET index == class_index(0, size \div 2)
        freeblockhead == h.freeblocklist + (WSIZE * index)
        header == GET(h, freeblockhead)
    IN  IF GET(h, freeblockhead) # 0
        THEN Bind([h1 \in {PUT(h, freeblockhead, bp)} |->
             Bind([h2 \in {PUT(h1, PRED(bp), 0)} |->
             Bind([h3 \in {PUT(h2, SUCC(bp), header)} |->
             PUT(h3, PRED(header), bp)])])])
        ELSE Bind([h1 \in {PUT(h, freeblockhead, bp)} |->
             Bind([h2 \in {PUT(h1, SUCC(bp), 0)} |->
             PUT(h2, PRED(bp), 0)])])

\* insertnode linking the new head of a list to itself instead of to the old
\* head.
insertnode_links_itself(h, bp, size) ==
    LET index == class_index(0, size)
        freeblockhead == h.freeblocklist + (WSIZE * index)
        header == GET(h, freeblockhead)
    IN  IF GET(h, freeblockhead) # 0
        THEN Bind([h1 \in {PUT(h, freeblockhead, bp)} |->
             Bind([h2 \in {PUT(h1, PRED(bp), 0)} |->
             Bind([h3 \in {PUT(h2, SUCC(bp), bp)} |->
             PUT(h3, PRED(header), bp)])])])
        ELSE Bind([h1 \in {PUT(h, freeblockhead, bp)} |->
             Bind([h2 \in {PUT(h1, SUCC(bp), 0)} |->
             PUT(h2, PRED(bp), 0)])])

insertnode(h, bp, size) ==
    LET index == class_index(0, size)
        freeblockhead == h.freeblocklist + (WSIZE * index)
        header == GET(h, freeblockhead)
    IN  IF GET(h, freeblockhead) # 0
        THEN Bind([h1 \in {PUT(h, freeblockhead, bp)} |->
             Bind([h2 \in {PUT(h1, PRED(bp), 0)} |->
             Bind([h3 \in {PUT(h2, SUCC(bp), header)} |->
             PUT(h3, PRED(header), bp)])])])
        ELSE Bind([h1 \in {PUT(h, freeblockhead, bp)} |->
             Bind([h2 \in {PUT(h1, SUCC(bp), 0)} |->
             PUT(h2, PRED(bp), 0)])])

\* deletenode leaving the head in place when it unlinks the only block of a
\* list.
deletenode_keeps_head(h, bp) ==
    LET size == GET_SIZE(h, HDRP(bp))
        succ == GET(h, SUCC(bp))
        pred == GET(h, PRED(bp))
        index == class_index(0, size)
    IN  IF GET(h, PRED(bp)) # 0
        THEN IF GET(h, SUCC(bp)) = 0
             THEN PUT(h, SUCC(pred), 0)
             ELSE Bind([h1 \in {PUT(h, SUCC(pred), succ)} |->
                  PUT(h1, PRED(succ), pred)])
        ELSE IF GET(h, SUCC(bp)) = 0
             THEN h
             ELSE Bind([h1 \in {PUT(h, PRED(succ), 0)} |->
                  PUT(h1, h1.freeblocklist + WSIZE * index, succ)])

deletenode(h, bp) ==
    LET size == GET_SIZE(h, HDRP(bp))
        succ == GET(h, SUCC(bp))
        pred == GET(h, PRED(bp))
        index == class_index(0, size)
    IN  IF GET(h, PRED(bp)) # 0
        THEN IF GET(h, SUCC(bp)) = 0
             THEN PUT(h, SUCC(pred), 0)
             ELSE Bind([h1 \in {PUT(h, SUCC(pred), succ)} |->
                  PUT(h1, PRED(succ), pred)])
        ELSE IF GET(h, SUCC(bp)) = 0
             THEN PUT(h, h.freeblocklist + index * WSIZE, 0)
             ELSE Bind([h1 \in {PUT(h, PRED(succ), 0)} |->
                  PUT(h1, h1.freeblocklist + WSIZE * index, succ)])

\* A slip of one word: the tag read lies in the payload of the block before.
prev_alloc_one_word_early(h, bp) == GET_ALLOC(h, HDRP(bp) - DSIZE)

\* The local prev_alloc of coalesce.
prev_alloc(h, bp) == GET_ALLOC(h, FTRP(h, PREV_BLKP(h, bp)))

\* The next block taken for allocated whatever its header says.
next_alloc_always_set(h, bp) == 1

\* The local next_alloc of coalesce.
next_alloc(h, bp) == GET_ALLOC(h, HDRP(NEXT_BLKP(h, bp)))

\* coalesce taking the first case whatever the neighbours are.
coalesce_never_merges(h, bp) == [h |-> h, ret |-> bp]

\* coalesce leaving the size of the next block out of the sum when both
\* neighbours are free.
coalesce_sum_without_next(h, bp) ==
    LET prev == prev_alloc(h, bp)
        next == next_alloc(h, bp)
        size == GET_SIZE(h, HDRP(bp))
    IN  IF prev = 1 /\ next = 1
        THEN [h |-> h, ret |-> bp]
        ELSE IF prev = 1 /\ next = 0
        THEN LET size2 == size + GET_SIZE(h, HDRP(NEXT_BLKP(h, bp)))
             IN  Bind([h1 \in {deletenode(h, bp)} |->
                 Bind([h2 \in {deletenode(h1, NEXT_BLKP(h1, bp))} |->
                 Bind([h3 \in {PUT(h2, HDRP(bp), PACK(size2, 0))} |->
                 Bind([h4 \in {PUT(h3, FTRP(h3, bp), PACK(size2, 0))} |->
                 [h |-> insertnode(h4, bp, size2), ret |-> bp]])])])])
        ELSE IF prev = 0 /\ next = 1
        THEN LET size2 == size + GET_SIZE(h, HDRP(PREV_BLKP(h, bp)))
             IN  Bind([h1 \in {deletenode(h, bp)} |->
                 Bind([h2 \in {deletenode(h1, PREV_BLKP(h1, bp))} |->
                 Bind([h3 \in {PUT(h2, HDRP(PREV_BLKP(h2, bp)), PACK(size2, 0))} |->
                 Bind([h4 \in {PUT(h3, FTRP(h3, bp), PACK(size2, 0))} |->
                 Bind([bp2 \in {PREV_BLKP(h4, bp)} |->
                 [h |-> insertnode(h4, bp2, size2), ret |-> bp2]])])])])])
        ELSE LET size2 == size + GET_SIZE(h, HDRP(PREV_BLKP(h, bp)))
             IN  Bind([h1 \in {deletenode(h, bp)} |->
                 Bind([h2 \in {deletenode(h1, PREV_BLKP(h1, bp))} |->
                 Bind([h3 \in {deletenode(h2, NEXT_BLKP(h2, bp))} |->
                 Bind([h4 \in {PUT(h3, HDRP(PREV_BLKP(h3, bp)), PACK(size2, 0))} |->
                 Bind([h5 \in {PUT(h4, FTRP(h4, NEXT_BLKP(h4, bp)), PACK(size2, 0))} |->
                 Bind([bp2 \in {PREV_BLKP(h5, bp)} |->
                 [h |-> insertnode(h5, bp2, size2), ret |-> bp2]])])])])])])

\* The merge with a free next block leaving that block on its list.
coalesce_merge_keeps_next_listed(h, bp) ==
    LET prev == prev_alloc(h, bp)
        next == next_alloc(h, bp)
        size == GET_SIZE(h, HDRP(bp))
    IN  IF prev = 1 /\ next = 0
        THEN LET size2 == size + GET_SIZE(h, HDRP(NEXT_BLKP(h, bp)))
             IN  Bind([h1 \in {deletenode(h, bp)} |->
                 Bind([h3 \in {PUT(h1, HDRP(bp), PACK(size2, 0))} |->
                 Bind([h4 \in {PUT(h3, FTRP(h3, bp), PACK(size2, 0))} |->
                 [h |-> h4, bp |-> bp, size |-> size2]])])])
        ELSE IF prev = 0 /\ next = 1
        THEN LET size2 == size + GET_SIZE(h, HDRP(PREV_BLKP(h, bp)))
             IN  Bind([h1 \in {deletenode(h, bp)} |->
                 Bind([h2 \in {deletenode(h1, PREV_BLKP(h1, bp))} |->
                 Bind([h3 \in {PUT(h2, HDRP(PREV_BLKP(h2, bp)), PACK(size2, 0))} |->
                 Bind([h4 \in {PUT(h3, FTRP(h3, bp), PACK(size2, 0))} |->
                 [h |-> h4, bp |-> PREV_BLKP(h4, bp), size |-> size2]])])])])
        ELSE LET size2 == size + GET_SIZE(h, HDRP(PREV_BLKP(h, bp)))
                               + GET_SIZE(h, HDRP(NEXT_BLKP(h, bp)))
             IN  Bind([h1 \in {deletenode(h, bp)} |->
                 Bind([h2 \in {deletenode(h1, PREV_BLKP(h1, bp))} |->
                 Bind([h3 \in {deletenode(h2, NEXT_BLKP(h2, bp))} |->
                 Bind([h4 \in {PUT(h3, HDRP(PREV_BLKP(h3, bp)), PACK(size2, 0))} |->
                 Bind([h5 \in {PUT(h4, FTRP(h4, NEXT_BLKP(h4, bp)), PACK(size2, 0))} |->
                 [h |-> h5, bp |-> PREV_BLKP(h5, bp), size |-> size2]])])])])])

\* The merging cases of coalesce up to the point where the merged block is
\* put on its list: the heap, the block pointer and the size at that point.
coalesce_merge(h, bp) ==
    LET prev == prev_alloc(h, bp)
        next == next_alloc(h, bp)
        size == GET_SIZE(h, HDRP(bp))
    IN  IF prev = 1 /\ next = 0
        THEN LET size2 == size + GET_SIZE(h, HDRP(NEXT_BLKP(h, bp)))
             IN  Bind([h1 \in {deletenode(h, bp)} |->
                 Bind([h2 \in {deletenode(h1, NEXT_BLKP(h1, bp))} |->
                 Bind([h3 \in {PUT(h2, HDRP(bp), PACK(size2, 0))} |->
                 Bind([h4 \in {PUT(h3, FTRP(h3, bp), PACK(size2, 0))} |->
                 [h |-> h4, bp |-> bp, size |-> size2]])])])])
        ELSE IF prev = 0 /\ next = 1
        THEN LET size2 == size + GET_SIZE(h, HDRP(PREV_BLKP(h, bp)))
             IN  Bind([h1 \in {deletenode(h, bp)} |->
                 Bind([h2 \in {deletenode(h1, PREV_BLKP(h1, bp))} |->
                 Bind([h3 \in {PUT(h2, HDRP(PREV_BLKP(h2, bp)), PACK(size2, 0))} |->
                 Bind([h4 \in {PUT(h3, FTRP(h3, bp), PACK(size2, 0))} |->
                 [h |-> h4, bp |-> PREV_BLKP(h4, bp), size |-> size2]])])])])
        ELSE LET size2 == size + GET_SIZE(h, HDRP(PREV_BLKP(h, bp)))
                               + GET_SIZE(h, HDRP(NEXT_BLKP(h, bp)))
             IN  Bind([h1 \in {deletenode(h, bp)} |->
                 Bind([h2 \in {deletenode(h1, PREV_BLKP(h1, bp))} |->
                 Bind([h3 \in {deletenode(h2, NEXT_BLKP(h2, bp))} |->
                 Bind([h4 \in {PUT(h3, HDRP(PREV_BLKP(h3, bp)), PACK(size2, 0))} |->
                 Bind([h5 \in {PUT(h4, FTRP(h4, NEXT_BLKP(h4, bp)), PACK(size2, 0))} |->
                 [h |-> h5, bp |-> PREV_BLKP(h5, bp), size |-> size2]])])])])])

coalesce(h, bp) ==
    IF prev_alloc(h, bp) = 1 /\ next_alloc(h, bp) = 1
    THEN [h |-> h, ret |-> bp]
    ELSE Bind([m \in {coalesce_merge(h, bp)} |->
         [h |-> insertnode(m.h, m.bp, m.size), ret |-> m.bp]])

\* ------------------------------------------------------------- placement
\* What find_fit yields when a class list never reaches the null offset.
DIVERGES == -3

RECURSIVE find_valid_block_loop(_, _, _, _)
find_valid_block_loop(h, asize, blk_addr, fuel) ==
    IF blk_addr = 0 THEN NULL
    ELSE IF fuel = 0 THEN DIVERGES
    ELSE IF asize <= GET_SIZE(h, HDRP(blk_addr)) THEN blk_addr
    ELSE Bind([next \in {GET(h, SUCC(blk_addr))} |->
         find_valid_block_loop(h, asize, next, fuel - 1)])

find_valid_block(h, asize, index) ==
    find_valid_block_loop(h, asize, GET(h, h.freeblocklist + (WSIZE * index)), ArenaWords)

RECURSIVE find_fit_loop(_, _, _)
find_fit_loop(h, asize, index) ==
    IF index <= MAXLIST
    THEN Bind([bp \in {find_valid_block(h, asize, index)} |->
         IF bp = NULL THEN find_fit_loop(h, asize, index + 1) ELSE bp])
    ELSE NULL

\* find_fit starting its scan one class above the class of the size.
find_fit_skips_own_class(h, size) == find_fit_loop(h, size, class_index(0, size) + 1)

find_fit(h, size) == find_fit_loop(h, size, class_index(0, size))

\* place splitting off any remainder that holds the two tags.
place_split_small(h, bp, asize) ==
    LET csize == GET_SIZE(h, HDRP(bp))
        remainder == csize - asize
    IN  Bind([h0 \in {deletenode(h, bp)} |->
        IF remainder >= DSIZE
        THEN Bind([h1 \in {PUT(h0, HDRP(bp), PACK(asize, 1))} |->
             Bind([h2 \in {PUT(h1, FTRP(h1, bp), PACK(asize, 1))} |->
             Bind([bp2 \in {NEXT_BLKP(h2, bp)} |->
             Bind([h3 \in {PUT(h2, HDRP(bp2), PACK(remainder, 0))} |->
             Bind([h4 \in {PUT(h3, FTRP(h3, bp2), PACK(remainder, 0))} |->
             insertnode(h4, bp2, remainder)])])])])])
        ELSE Bind([h1 \in {PUT(h0, HDRP(bp), PACK(csize, 1))} |->
             PUT(h1, FTRP(h1, bp), PACK(csize, 1))])])

\* place with the tags of the allocated part carrying the size of the whole
\* free block when it splits.
place_full_tag(h, bp, asize) ==
    LET csize == GET_SIZE(h, HDRP(bp))
        remainder == csize - asize
    IN  Bind([h0 \in {deletenode(h, bp)} |->
        IF remainder > MINLISTSIZE
        THEN Bind([h1 \in {PUT(h0, HDRP(bp), PACK(csize, 1))} |->
             Bind([h2 \in {PUT(h1, FTRP(h1, bp), PACK(csize, 1))} |->
             Bind([bp2 \in {bp + asize} |->
             Bind([h3 \in {PUT(h2, HDRP(bp2), PACK(remainder, 0))} |->
             Bind([h4 \in {PUT(h3, FTRP(h3, bp2), PACK(remainder, 0))} |->
             insertnode(h4, bp2, remainder)])])])])])
        ELSE Bind([h1 \in {PUT(h0, HDRP(bp), PACK(csize, 1))} |->
             PUT(h1, FTRP(h1, bp), PACK(csize, 1))])])

\* place splitting also when the remainder equals MINLISTSIZE.
place_splits_at_threshold(h, bp, asize) ==
    LET csize == GET_SIZE(h, HDRP(bp))
        remainder == csize - asize
    IN  Bind([h0 \in {deletenode(h, bp)} |->
        IF remainder >= MINLISTSIZE
        THEN Bind([h1 \in {PUT(h0, HDRP(bp), PACK(asize, 1))} |->
             Bind([h2 \in {PUT(h1, FTRP(h1, bp), PACK(asize, 1))} |->
             Bind([bp2 \in {NEXT_BLKP(h2, bp)} |->
             Bind([h3 \in {PUT(h2, HDRP(bp2), PACK(remainder, 0))} |->
             Bind([h4 \in {PUT(h3, FTRP(h3, bp2), PACK(remainder, 0))} |->
             insertnode(h4, bp2, remainder)])])])])])
        ELSE Bind([h1 \in {PUT(h0, HDRP(bp), PACK(csize, 1))} |->
             PUT(h1, FTRP(h1, bp), PACK(csize, 1))])])

\* place handing out the whole free block whatever the remainder.
place_never_splits(h, bp, asize) ==
    LET csize == GET_SIZE(h, HDRP(bp))
    IN  Bind([h0 \in {deletenode(h, bp)} |->
        Bind([h1 \in {PUT(h0, HDRP(bp), PACK(csize, 1))} |->
        PUT(h1, FTRP(h1, bp), PACK(csize, 1))])])

place(h, bp, asize) ==
    LET csize == GET_SIZE(h, HDRP(bp))
        remainder == csize - asize
    IN  Bind([h0 \in {deletenode(h, bp)} |->
        IF remainder > MINLISTSIZE
        THEN Bind([h1 \in {PUT(h0, HDRP(bp), PACK(asize, 1))} |->
             Bind([h2 \in {PUT(h1, FTRP(h1, bp), PACK(asize, 1))} |->
             Bind([bp2 \in {NEXT_BLKP(h2, bp)} |->
             Bind([h3 \in {PUT(h2, HDRP(bp2), PACK(remainder, 0))} |->
             Bind([h4 \in {PUT(h3, FTRP(h3, bp2), PACK(remainder, 0))} |->
             insertnode(h4, bp2, remainder)])])])])])
        ELSE Bind([h1 \in {PUT(h0, HDRP(bp), PACK(csize, 1))} |->
             PUT(h1, FTRP(h1, bp), PACK(csize, 1))])])

\* extend_heap asking mem_sbrk for two words more than the block it tags.
extend_heap_two_words_more(h, words) ==
    LET size == IF words % 2 = 1 THEN (words + 1) * WSIZE ELSE words * WSIZE
    IN  Bind([r \in {mem_sbrk(h, size + DSIZE)} |->
        IF r.ret = SBRK_FAIL
        THEN [h |-> r.h, ret |-> NULL]
        ELSE Bind([h1 \in {PUT(r.h, HDRP(r.ret), PACK(size, 0))} |->
             Bind([h2 \in {PUT(h1, FTRP(h1, r.ret), PACK(size, 0))} |->
             Bind([h3 \in {PUT(h2, HDRP(NEXT_BLKP(h2, r.ret)), PACK(0, 1))} |->
             Bind([h4 \in {insertnode(h3, r.ret, size)} |->
             coalesce(h4, r.ret)])])])])])

\* extend_heap writing the header of the new block before it tests what
\* mem_sbrk returned.
extend_heap_untested(h, words) ==
    LET size == IF words % 2 = 1 THEN (words + 1) * WSIZE ELSE words * WSIZE
    IN  Bind([r \in {mem_sbrk(h, size)} |->
        Bind([bp \in {IF r.ret = SBRK_FAIL THEN r.h.mem_brk ELSE r.ret} |->
        Bind([h1 \in {PUT(r.h, HDRP(bp), PACK(size, 0))} |->
        IF r.ret = SBRK_FAIL
        THEN [h |-> h1, ret |-> NULL]
        ELSE Bind([h2 \in {PUT(h1, FTRP(h1, bp), PACK(size, 0))} |->
             Bind([h3 \in {PUT(h2, HDRP(NEXT_BLKP(h2, bp)), PACK(0, 1))} |->
             Bind([h4 \in {insertnode(h3, bp, size)} |->
             coalesce(h4, bp)])])])])])])

extend_heap(h, words) ==
    LET size == IF words % 2 = 1 THEN (words + 1) * WSIZE ELSE words * WSIZE
    IN  Bind([r \in {mem_sbrk(h, size)} |->
        IF r.ret = SBRK_FAIL
        THEN [h |-> r.h, ret |-> NULL]
        ELSE Bind([h1 \in {PUT(r.h, HDRP(r.ret), PACK(size, 0))} |->
             Bind([h2 \in {PUT(h1, FTRP(h1, r.ret), PACK(size, 0))} |->
             Bind([h3 \in {PUT(h2, HDRP(NEXT_BLKP(h2, r.ret)), PACK(0, 1))} |->
             Bind([h4 \in {insertnode(h3, r.ret, size)} |->
             coalesce(h4, r.ret)])])])])])

\* The adjustment without the overhead of the two tags.
adjusted_size_no_overhead(size) ==
    IF size <= DSIZE
    THEN DSIZE
    ELSE DSIZE * ((size + (DSIZE - 1)) \div DSIZE)

\* The adjusted block size of malloc and realloc.
adjusted_size(size) ==
    IF size <= DSIZE
    THEN 2 * DSIZE
    ELSE DSIZE * ((size + DSIZE + (DSIZE - 1)) \div DSIZE)

\* malloc extending the heap without looking for a fit.
malloc_extends_first(h, size) ==
    IF size = 0
    THEN [h |-> h, ret |-> NULL]
    ELSE LET asize == adjusted_size(size)
             extendsize == MAX(asize, CHUNKSIZE)
         IN  Bind([r \in {extend_heap(h, extendsize \div WSIZE)} |->
             IF r.ret = NULL
             THEN [h |-> r.h, ret |-> NULL]
             ELSE [h |-> place(r.h, r.ret, asize), ret |-> r.ret]])

\* malloc without its test for a request of no bytes.
malloc_no_zero_test(h, size) ==
    LET asize == adjusted_size(size)
    IN  Bind([bp \in {find_fit(h, asize)} |->
        IF bp = DIVERGES
        THEN [h |-> h, ret |-> DIVERGES]
        ELSE IF bp # NULL
        THEN [h |-> place(h, bp, asize), ret |-> bp]
        ELSE LET extendsize == MAX(asize, CHUNKSIZE)
             IN  Bind([r \in {extend_heap(h, extendsize \div WSIZE)} |->
                 IF r.ret = NULL
                 THEN [h |-> r.h, ret |-> NULL]
                 ELSE [h |-> place(r.h, r.ret, asize), ret |-> r.ret]])])

malloc(h, size) ==
    IF size = 0
    THEN [h |-> h, ret |-> NULL]
    ELSE LET asize == adjusted_size(size)
         IN  Bind([bp \in {find_fit(h, asize)} |->
             IF bp = DIVERGES
             THEN [h |-> h, ret |-> DIVERGES]
             ELSE IF bp # NULL
             THEN [h |-> place(h, bp, asize), ret |-> bp]
             ELSE LET extendsize == MAX(asize, CHUNKSIZE)
                  IN  Bind([r \in {extend_heap(h, extendsize \div WSIZE)} |->
                      IF r.ret = NULL
                      THEN [h |-> r.h, ret |-> NULL]
                      ELSE [h |-> place(r.h, r.ret, asize), ret |-> r.ret]])])

\* free tagging the block free without putting it on a class list.
free_unlisted(h, ptr) ==
    IF ptr = NULL
    THEN h
    ELSE LET size == GET_SIZE(h, HDRP(ptr))
         IN  Bind([h1 \in {PUT(h, HDRP(ptr), PACK(size, 0))} |->
             PUT(h1, FTRP(h1, ptr), PACK(size, 0))])

\* The block put on the list of its payload size instead of its block size.
free_listed_by_payload(h, ptr) ==
    LET size == GET_SIZE(h, HDRP(ptr))
    IN  Bind([h1 \in {PUT(h, HDRP(ptr), PACK(size, 0))} |->
        Bind([h2 \in {PUT(h1, FTRP(h1, ptr), PACK(size, 0))} |->
        insertnode(h2, ptr, GET_SIZE(h2, HDRP(ptr)) - DSIZE)])])

\* free up to its call of coalesce: the block tagged free and put on its list.
free_listed(h, ptr) ==
    LET size == GET_SIZE(h, HDRP(ptr))
    IN  Bind([h1 \in {PUT(h, HDRP(ptr), PACK(size, 0))} |->
        Bind([h2 \in {PUT(h1, FTRP(h1, ptr), PACK(size, 0))} |->
        insertnode(h2, ptr, GET_SIZE(h2, HDRP(ptr)))])])

free(h, ptr) ==
    IF ptr = NULL
    THEN h
    ELSE coalesce(free_listed(h, ptr), ptr).h

\* ------------------------------------------------------- bytes and size_t
\* memcpy and memset count bytes; the machine is little-endian, so the first
\* r bytes of a word are its value modulo 256^r.
memcpy(h, dst, src, n) ==
    [h EXCEPT !.mem = [w \in DOMAIN h.mem |->
        LET off == w * WSIZE - dst
        IN  IF off >= 0 /\ off + WSIZE <= n
            THEN h.mem[(src + off) \div WSIZE]
            ELSE IF off >= 0 /\ off < n
            THEN LET k == 256 ^ (n - off)
                 IN  (h.mem[w] - (h.mem[w] % k)) + (h.mem[(src + off) \div WSIZE] % k)
            ELSE h.mem[w]]]

memset(h, p, c, n) ==
    LET word == c + 256 * c + 65536 * c + 16777216 * c
    IN  [h EXCEPT !.mem = [w \in DOMAIN h.mem |->
            LET off == w * WSIZE - p
            IN  IF off >= 0 /\ off + WSIZE <= n
                THEN word
                ELSE IF off >= 0 /\ off < n
                THEN LET k == 256 ^ (n - off)
                     IN  (h.mem[w] - (h.mem[w] % k)) + (word % k)
                ELSE h.mem[w]]]

\* A size_t is eight bytes, least significant first.
SizeT(n) == <<n % 256, (n \div 256) % 256, (n \div 65536) % 256, 0, 0, 0, 0, 0>>

RECURSIVE column(_, _, _, _)
column(a, b, i, j) ==
    IF j > i THEN 0
    ELSE (IF j < 8 /\ i - j < 8 THEN a[j + 1] * b[i - j + 1] ELSE 0) + column(a, b, i, j + 1)

RECURSIVE product_from(_, _, _, _, _)
product_from(a, b, i, carry, len) ==
    IF i = len THEN <<>>
    ELSE Bind([t \in {column(a, b, i, 0) + carry} |->
         <<t % 256>> \o product_from(a, b, i + 1, t \div 256, len)])

\* nmemb * size in size_t arithmetic: the low 64 bits of the product.
size_t_mul(a, b) == product_from(a, b, 0, 0, 8)

\* The mathematical product, sixteen bytes.
full_product(a, b) == product_from(a, b, 0, 0, 16)

\* The value of a size_t whose upper five bytes are zero.
size_t_value(a) == a[1] + 256 * a[2] + 65536 * a[3]

\* The last branch of realloc copying out of the old block after its release.
realloc_grow_copy_released(h, ptr, size, oldsize) ==
    Bind([r \in {malloc(h, size)} |->
    IF r.ret = NULL \/ r.ret = DIVERGES
    THEN r
    ELSE LET n == IF size < oldsize THEN size ELSE oldsize
         IN  Bind([h1 \in {free(r.h, ptr)} |->
             [h |-> memcpy(h1, r.ret, ptr, n), ret |-> r.ret]])])

\* The last branch of realloc releasing the old block before it asks for the new.
realloc_grow_release_first(h, ptr, size, oldsize) ==
    Bind([h0 \in {free(h, ptr)} |->
    Bind([r \in {malloc(h0, size)} |->
    IF r.ret = NULL \/ r.ret = DIVERGES
    THEN r
    ELSE LET n == IF size < oldsize THEN size ELSE oldsize
         IN  [h |-> memcpy(r.h, r.ret, ptr, n), ret |-> r.ret]])])

\* The last branch of realloc: a new block, the copy, the release of the old.
realloc_grow(h, ptr, size, oldsize) ==
    Bind([r \in {malloc(h, size)} |->
    IF r.ret = NULL \/ r.ret = DIVERGES
    THEN r
    ELSE LET n == IF size < oldsize THEN size ELSE oldsize
         IN  Bind([h1 \in {memcpy(r.h, r.ret, ptr, n)} |->
             [h |-> free(h1, ptr), ret |-> r.ret]])])

\* realloc taking a new block whenever the adjusted size differs from the old.
realloc_moves_on_shrink(h, ptr, size) ==
    IF size = 0
    THEN [h |-> free(h, ptr), ret |-> NULL]
    ELSE IF ptr = NULL
    THEN malloc(h, size)
    ELSE LET asize == adjusted_size(size)
             oldsize == GET_SIZE(h, HDRP(ptr))
         IN  IF asize = oldsize
             THEN [h |-> h, ret |-> ptr]
             ELSE realloc_grow(h, ptr, size, oldsize)

\* realloc handing malloc the adjusted size when it is given no block.
realloc_null_adjusted(h, ptr, size) ==
    IF size = 0
    THEN [h |-> free(h, ptr), ret |-> NULL]
    ELSE IF ptr = NULL
    THEN malloc(h, adjusted_size(size))
    ELSE LET asize == adjusted_size(size)
             oldsize == GET_SIZE(h, HDRP(ptr))
         IN  IF asize = oldsize
             THEN [h |-> h, ret |-> ptr]
             ELSE IF asize <= oldsize
             THEN IF oldsize - asize <= 2 * DSIZE
                  THEN [h |-> h, ret |-> ptr]
                  ELSE Bind([h1 \in {PUT(h, HDRP(ptr), PACK(asize, 1))} |->
                       Bind([h2 \in {PUT(h1, FTRP(h1, ptr), PACK(asize, 1))} |->
                       Bind([h3 \in {PUT(h2, HDRP(NEXT_BLKP(h2, ptr)), PACK(oldsize - asize, 1))} |->
                       [h |-> free(h3, NEXT_BLKP(h3, ptr)), ret |-> ptr]])])])
             ELSE realloc_grow(h, ptr, size, oldsize)

\* realloc splitting also when exactly 2*DSIZE bytes are left over.
realloc_splits_at_sixteen(h, ptr, size) ==
    IF size = 0
    THEN [h |-> free(h, ptr), ret |-> NULL]
    ELSE IF ptr = NULL
    THEN malloc(h, size)
    ELSE LET asize == adjusted_size(size)
             oldsize == GET_SIZE(h, HDRP(ptr))
         IN  IF asize = oldsize
             THEN [h |-> h, ret |-> ptr]
             ELSE IF asize <= oldsize
             THEN IF oldsize - asize < 2 * DSIZE
                  THEN [h |-> h, ret |-> ptr]
                  ELSE Bind([h1 \in {PUT(h, HDRP(ptr), PACK(asize, 1))} |->
                       Bind([h2 \in {PUT(h1, FTRP(h1, ptr), PACK(asize, 1))} |->
                       Bind([h3 \in {PUT(h2, HDRP(NEXT_BLKP(h2, ptr)), PACK(oldsize - asize, 1))} |->
                       [h |-> free(h3, NEXT_BLKP(h3, ptr)), ret |-> ptr]])])])
             ELSE realloc_grow(h, ptr, size, oldsize)

realloc(h, ptr, size) ==
    IF size = 0
    THEN [h |-> free(h, ptr), ret |-> NULL]
    ELSE IF ptr = NULL
    THEN malloc(h, size)
    ELSE LET asize == adjusted_size(size)
             oldsize == GET_SIZE(h, HDRP(ptr))
         IN  IF asize = oldsize
             THEN [h |-> h, ret |-> ptr]
             ELSE IF asize <= oldsize
             THEN IF oldsize - asize <= 2 * DSIZE
                  THEN [h |-> h, ret |-> ptr]
                  ELSE Bind([h1 \in {PUT(h, HDRP(ptr), PACK(asize, 1))} |->
                       Bind([h2 \in {PUT(h1, FTRP(h1, ptr), PACK(asize, 1))} |->
                       Bind([h3 \in {PUT(h2, HDRP(NEXT_BLKP(h2, ptr)), PACK(oldsize - asize, 1))} |->
                       [h |-> free(h3, NEXT_BLKP(h3, ptr)), ret |-> ptr]])])])
             ELSE realloc_grow(h, ptr, size, oldsize)

\* calloc; `wild` is the number of bytes memset writes through a null result.
calloc(h, nmemb, size) ==
    Bind([bytes \in {size_t_value(size_t_mul(nmemb, size))} |->
    Bind([r \in {malloc(h, bytes)} |->
    IF r.ret = DIVERGES
    THEN [h |-> r.h, ret |-> DIVERGES, wild |-> 0]
    ELSE IF r.ret = NULL
    THEN [h |-> r.h, ret |-> NULL, wild |-> bytes]
    ELSE [h |-> memset(r.h, r.ret, 0, bytes), ret |-> r.ret, wild |-> 0]])])

\* ---------------------------------------------------------------- mm_init
\* The loop `for (i = 0; i <= MAXLIST; i++) PUT(freeblocklist + WSIZE * i, NULL);`
table_init(h) ==
    [h EXCEPT !.mem = [w \in DOMAIN h.mem |->
        IF \E i \in 0..MAXLIST : w = (h.freeblocklist + WSIZE * i) \div WSIZE
        THEN 0
        ELSE h.mem[w]]]

\* A table of MAXLIST + 1 heads, the pad word left as it is.
table_bytes_all_heads == (MAXLIST + 1) * WSIZE

\* The bytes mm_init asks of mem_sbrk for the table of class heads.
table_bytes == MAXLIST * WSIZE

\* mm_init tagging the prologue header as free.
mm_init_prologue_header_free(h) ==
    Bind([r1 \in {mem_sbrk(h, table_bytes)} |->
    Bind([h1 \in {[r1.h EXCEPT !.freeblocklist = r1.ret]} |->
    IF r1.ret = NULL
    THEN [h |-> h1, ret |-> -1, wild |-> 0]
    ELSE LET lost == r1.ret = SBRK_FAIL
             w == IF lost THEN (MAXLIST + 1) * WSIZE ELSE 0
         IN  Bind([h2 \in {IF lost THEN h1 ELSE table_init(h1)} |->
             Bind([r2 \in {mem_sbrk(h2, 4 * WSIZE)} |->
             Bind([h3 \in {[r2.h EXCEPT !.heap_listp = r2.ret]} |->
             IF r2.ret = SBRK_FAIL
             THEN [h |-> h3, ret |-> -1, wild |-> w]
             ELSE Bind([h4 \in {PUT(h3, h3.heap_listp, 0)} |->
                  Bind([h5 \in {PUT(h4, h4.heap_listp + (1 * WSIZE), PACK(DSIZE, 0))} |->
                  Bind([h6 \in {PUT(h5, h5.heap_listp + (2 * WSIZE), PACK(DSIZE, 1))} |->
                  Bind([h7 \in {PUT(h6, h6.heap_listp + (3 * WSIZE), PACK(0, 1))} |->
                  Bind([h8 \in {[h7 EXCEPT !.heap_listp = @ + (2 * WSIZE)]} |->
                  Bind([r3 \in {extend_heap(h8, CHUNKSIZE \div WSIZE)} |->
                  IF r3.ret = NULL
                  THEN [h |-> r3.h, ret |-> -1, wild |-> w]
                  ELSE [h |-> r3.h, ret |-> 0, wild |-> w]])])])])])])])])])])])

\* `wild` counts the bytes of the table written through the pointer -1, which
\* the test `== NULL` of the first mem_sbrk does not recognise as a failure.
mm_init(h) ==
    Bind([r1 \in {mem_sbrk(h, table_bytes)} |->
    Bind([h1 \in {[r1.h EXCEPT !.freeblocklist = r1.ret]} |->
    IF r1.ret = NULL
    THEN [h |-> h1, ret |-> -1, wild |-> 0]
    ELSE LET lost == r1.ret = SBRK_FAIL
             w == IF lost THEN (MAXLIST + 1) * WSIZE ELSE 0
         IN  Bind([h2 \in {IF lost THEN h1 ELSE table_init(h1)} |->
             Bind([r2 \in {mem_sbrk(h2, 4 * WSIZE)} |->
             Bind([h3 \in {[r2.h EXCEPT !.heap_listp = r2.ret]} |->
             IF r2.ret = SBRK_FAIL
             THEN [h |-> h3, ret |-> -1, wild |-> w]
             ELSE Bind([h4 \in {PUT(h3, h3.heap_listp, 0)} |->
                  Bind([h5 \in {PUT(h4, h4.heap_listp + (1 * WSIZE), PACK(DSIZE, 1))} |->
                  Bind([h6 \in {PUT(h5, h5.heap_listp + (2 * WSIZE), PACK(DSIZE, 1))} |->
                  Bind([h7 \in {PUT(h6, h6.heap_listp + (3 * WSIZE), PACK(0, 1))} |->
                  Bind([h8 \in {[h7 EXCEPT !.heap_listp = @ + (2 * WSIZE)]} |->
                  Bind([r3 \in {extend_heap(h8, CHUNKSIZE \div WSIZE)} |->
                  IF r3.ret = NULL
                  THEN [h |-> r3.h, ret |-> -1, wild |-> w]
                  ELSE [h |-> r3.h, ret |-> 0, wild |-> w]])])])])])])])])])])])

\* ------------------------------------------------------------ heap walk
\* The loop of mm_checkheap:
\* `for ( ; GET_SIZE(HDRP(ptr)) > 0; ptr = NEXT_BLKP(ptr))`, as the sequence of
\* the block pointers it visits.
RECURSIVE heap_walk(_, _, _)
heap_walk(h, ptr, fuel) ==
    IF fuel = 0 \/ GET_SIZE(h, HDRP(ptr)) = 0
    THEN <<>>
    ELSE <<ptr>> \o heap_walk(h, NEXT_BLKP(h, ptr), fuel - 1)

heap_blocks(h) == heap_walk(h, h.heap_listp + DSIZE, ArenaWords)

in_heap(h, p) == p <= mem_heap_hi(h) /\ p >= mem_heap_lo

\* The blocks of one class list, from its head along the successor links
\* (checkfreeblocks).
RECURSIVE list_walk(_, _, _)
list_walk(h, next, fuel) ==
    IF fuel = 0 \/ next = 0
    THEN <<>>
    ELSE <<next>> \o list_walk(h, GET(h, SUCC(next)), fuel - 1)

class_list(h, index) ==
    list_walk(h, GET(h, h.freeblocklist + WSIZE * index), ArenaWords)

class_lists(h) == [index \in 0..MAXLIST |-> class_list(h, index)]

\* The freecount of checkfreeblocks: one for every block met on a class list.
RECURSIVE TotalLen(_, _)
TotalLen(lists, index) ==
    IF index > MAXLIST THEN 0 ELSE Len(lists[index]) + TotalLen(lists, index + 1)

\* ------------------------------------------------------------ the checker
\* aligned: block pointers are distances from the region start, which is
\* a multiple of 8.
ALIGN(p) == ((p + (ALIGNMENT - 1)) \div 8) * 8

aligned(p) == ALIGN(p) = p

Report(condition, message) == IF condition THEN {message} ELSE {}

\* checkblock, as the set of the messages it prints for bp.
checkblock(h, bp) ==
    LET size == GET_SIZE(h, HDRP(bp))
        alloc == GET_ALLOC(h, HDRP(bp))
    IN  Report(~in_heap(h, bp), "BP is not in heap")
        \cup Report(~aligned(bp), "BP is not aligned")
        \cup Report(GET(h, HDRP(bp)) # GET(h, FTRP(h, bp)), "HEADER doesnt match footer for the block")
        \cup Report(size # GET_SIZE(h, FTRP(h, bp)), "Header size does not match footer size")
        \cup Report(alloc # GET_ALLOC(h, FTRP(h, bp)), "Header allocation does not match footer allocation")
        \cup Report(GET_SIZE(h, HDRP(bp)) < 2 * DSIZE, "Block size is lesser than min block size")

\* The body of the loop of checkfreeblocks for the block liststart, followed on
\* its list by the block next (0 for none).
checkfreeblock(h, liststart, next) ==
    LET size == GET_SIZE(h, HDRP(liststart))
        alloc == GET_ALLOC(h, HDRP(liststart))
    IN  Report(~in_heap(h, liststart), "freelist pointer is not in heap")
        \cup Report(~aligned(liststart), "freeelist pointer is not aligned")
        \cup Report(GET(h, HDRP(liststart)) # GET(h, FTRP(h, liststart)), "HEADER doesnt match footer for the freelist block")
        \cup Report(size # GET_SIZE(h, FTRP(h, liststart)), "freelist: Header size does not match footer size")
        \cup Report(alloc # GET_ALLOC(h, FTRP(h, liststart)), "freelist: Header allocation does not match footer allocation")
        \cup Report(GET_ALLOC(h, liststart) # 0, "Free list has a pointer allocated")
        \cup Report(next # 0 /\ liststart # GET(h, PRED(next)), "Next of Prev and Prev of Next are not same in freelist")

\* checkfreeblocks: the messages it prints and the count it returns.  A list
\* that does not end within the arena keeps the real loop from returning.
checkfreeblocks(h) ==
    Bind([lists \in {class_lists(h)} |->
        [messages |->
            UNION {UNION {checkfreeblock(h, lists[index][j],
                                         IF j < Len(lists[index]) THEN lists[index][j + 1] ELSE 0)
                          : j \in DOMAIN lists[index]}
                   : index \in 0..MAXLIST}
            \cup Report(\E index \in 0..MAXLIST : Len(lists[index]) >= ArenaWords,
                        "checkfreeblocks does not return"),
         freecount |-> TotalLen(lists, 0)]])

\* mm_checkheap, as the set of the messages it prints.
mm_checkheap(h) ==
    IF h.heap_listp = NULL
    THEN {"Head list pointer is NULL,heap is not initialized properly"}
    ELSE Bind([blocks \in {heap_blocks(h)} |->
         Bind([d \in {checkfreeblocks(h)} |->
         LET freeblockcount ==
                 Cardinality({i \in DOMAIN blocks : GET_ALLOC(h, HDRP(blocks[i])) = 0})
         IN  Report(GET_SIZE(h, h.heap_listp) # DSIZE \/ GET_ALLOC(h, h.heap_listp) # 1,
                    "Prologue footer does not have valid value")
             \cup Report(GET(h, mem_heap_hi(h) - 3) # PACK(0, 1),
                         "Epilogue header does not have valid value")
             \cup Report(GET_SIZE(h, h.heap_listp - WSIZE) # DSIZE
                            \/ GET_ALLOC(h, h.heap_listp - WSIZE) # 1,
                         "Prologue header doesnt have valid value")
             \cup UNION {checkblock(h, blocks[i])
                         \cup Report(/\ GET_ALLOC(h, HDRP(blocks[i])) = 0
                                     /\ GET_ALLOC(h, HDRP(NEXT_BLKP(h, blocks[i]))) = 0,
                                     "Error: Free block pointers are adjacent")
                         : i \in DOMAIN blocks}
             \cup Report(Len(blocks) >= ArenaWords, "mm_checkheap does not return")
             \cup d.messages
             \cup Report(freeblockcount # d.freecount,
                         "Free block count is not same while checking in free lists and iterating through blocks")])])

\* ------------------------------------------------------------- the client
\* Sizes the client asks malloc for.
MallocSizes == {0, 1, 24, 112, 180, 200}

\* Sizes the client asks realloc for, given the pointer it passes.
ReallocSizes(p) == IF p = NULL THEN {0, 24} ELSE {0, 1, 24, 300}

\* 2^61 + 1: eight times this is 8 modulo 2^64.
Big == <<1, 0, 0, 0, 0, 0, 0, 32>>

\* Pairs (nmemb, size) the client passes to calloc.
CallocArgs == {<<SizeT(67), SizeT(3)>>, <<SizeT(0), SizeT(8)>>, <<Big, SizeT(8)>>}

\* Limits of the region provider the program may run under.
MaxAddrs == {40, 48, 64, MaxHeap}

\* The byte the client stores at position j of a block it fills.
FillByte(j) == (j % 100) + 1

FillWord(i) == FillByte(4 * i) + 256 * FillByte(4 * i + 1)
               + 65536 * FillByte(4 * i + 2) + 16777216 * FillByte(4 * i + 3)

\* The client stores FillByte(0 .. n-1) in the n bytes at p.
user_fill(h, p, n) ==
    [h EXCEPT !.mem = [w \in DOMAIN h.mem |->
        LET off == w * WSIZE - p
        IN  IF off >= 0 /\ off + WSIZE <= n
            THEN FillWord(off \div WSIZE)
            ELSE IF off >= 0 /\ off < n
            THEN LET k == 256 ^ (n - off)
                 IN  (h.mem[w] - (h.mem[w] % k)) + (FillWord(off \div WSIZE) % k)
            ELSE h.mem[w]]]

NoHeld == [x \in {} |-> 0]

Hold(p, n) == [x \in (DOMAIN held) \cup {p} |-> IF x = p THEN n ELSE held[x]]

Drop(p) == [x \in (DOMAIN held) \ {p} |-> held[x]]

\* The client fills every block malloc gives it before its next call.
Unfilled(p) == last.op = "malloc" /\ last.ret = p /\ p # NULL

SetHeap(h) ==
    /\ mem' = h.mem
    /\ mem_brk' = h.mem_brk
    /\ mem_max_addr' = h.mem_max_addr
    /\ freeblocklist' = h.freeblocklist
    /\ heap_listp' = h.heap_listp

Call(op, ptr, size, args, ret, sbrk) ==
    [op |-> op, ptr |-> ptr, size |-> size, args |-> args, ret |-> ret, sbrk |-> sbrk]

Init ==
    /\ \E fill \in {0, JunkWord} : mem = [w \in 0 .. (ArenaWords - 1) |-> fill]
    /\ mem_brk = 0
    /\ mem_max_addr \in MaxAddrs
    /\ freeblocklist = NULL
    /\ heap_listp = NULL
    /\ status = "start"
    /\ held = NoHeld
    /\ last = Call("none", NULL, 0, <<>>, NULL, 0)
    /\ allocs = 0
    /\ wild = 0

\* The client's bookkeeping when a call returns r (the heap and the result).
\* Once MaxAllocs blocks have been handed out the client goes on with free,
\* and with the calls that return no block.
Returns(r, op, ptr, size, args, newheld) ==
    /\ SetHeap(r.h)
    /\ last' = Call(op, ptr, size, args, r.ret, r.h.sbrk_calls)
    /\ held' = newheld
    /\ allocs' = IF r.ret \in {NULL, DIVERGES, ptr} THEN allocs ELSE allocs + 1
    /\ allocs < MaxAllocs \/ r.ret \in {NULL, DIVERGES}

MmInit ==
    /\ status = "start"
    /\ \E r \in {mm_init(Cur)} :
          /\ SetHeap(r.h)
          /\ wild' = r.wild
          /\ last' = Call("mm_init", NULL, 0, <<>>, r.ret, r.h.sbrk_calls)
          /\ IF r.wild > 0
             THEN status' \in {"crashed", "failed"}
             ELSE status' = IF r.ret = 0 THEN "ready" ELSE "failed"
    /\ UNCHANGED <<held, allocs>>

Malloc(n) ==
    /\ status = "ready"
    /\ ~Unfilled(last.ret)
    /\ \E r \in {malloc(Cur, n)} :
          /\ Returns(r, "malloc", NULL, n, <<>>,
                     IF r.ret \in {NULL, DIVERGES} THEN held ELSE Hold(r.ret, n))
          /\ status' = IF r.ret = DIVERGES THEN "hung" ELSE status
    /\ wild' = 0

Free(p) ==
    /\ status = "ready"
    /\ ~Unfilled(last.ret)
    /\ \E h \in {free(Cur, p)} :
          /\ SetHeap(h)
          /\ last' = Call("free", p, 0, <<>>, NULL, h.sbrk_calls)
    /\ held' = Drop(p)
    /\ wild' = 0
    /\ UNCHANGED <<status, allocs>>

Realloc(p, n) ==
    /\ status = "ready"
    /\ ~Unfilled(last.ret)
    /\ \E r \in {realloc(Cur, p, n)} :
          /\ Returns(r, "realloc", p, n, <<>>,
                     IF r.ret = DIVERGES \/ (r.ret = NULL /\ n # 0)
                     THEN held
                     ELSE IF r.ret = NULL
                     THEN Drop(p)
                     ELSE [x \in ((DOMAIN held) \ {p}) \cup {r.ret} |->
                               IF x = r.ret THEN n ELSE held[x]])
          /\ status' = IF r.ret = DIVERGES THEN "hung" ELSE status
    /\ wild' = 0

Calloc(nmemb, size) ==
    /\ status = "ready"
    /\ ~Unfilled(last.ret)
    /\ \E r \in {calloc(Cur, nmemb, size)} :
       \E bytes \in {size_t_value(size_t_mul(nmemb, size))} :
          /\ Returns(r, "calloc", NULL, bytes, <<nmemb, size>>,
                     IF r.ret \in {NULL, DIVERGES} THEN held ELSE Hold(r.ret, bytes))
          /\ wild' = r.wild
          /\ IF r.ret = DIVERGES
             THEN status' = "hung"
             ELSE IF r.wild > 0
             THEN status' \in {"crashed", status}
             ELSE status' = status

\* The client fills the block it has just been given.
UserWrite(p) ==
    /\ status = "ready"
    /\ Unfilled(p)
    /\ \E h \in {user_fill(Cur, p, held[p])} : SetHeap(h)
    /\ last' = Call("write", p, held[p], <<>>, NULL, 0)
    /\ wild' = 0
    /\ UNCHANGED <<status, held, allocs>>

Next ==
    \/ MmInit
    \/ \E n \in MallocSizes : Malloc(n)
    \/ \E p \in (DOMAIN held) \cup {NULL} : Free(p)
    \/ \E p \in (DOMAIN held) \cup {NULL} : \E n \in ReallocSizes(p) : Realloc(p, n)
    \/ \E a \in CallocArgs : Calloc(a[1], a[2])
    \/ \E p \in DOMAIN held : UserWrite(p)

Spec == Init /\ [][Next]_vars

\* ------------------------------------------------------------------ claims
\* The allocator's own state: the arena, the bounds of the region, its globals.
HeapVars == <<mem, mem_brk, mem_max_addr, freeblocklist, heap_listp>>

\* The byte at distance p from the anchor.
Byte(p) == (mem[p \div WSIZE] \div (256 ^ (p % WSIZE))) % 256

\* The payload range [p, p + size(p) - 8) of the block at p.
Payload(p) == p .. (p + GET_SIZE(Cur, HDRP(p)) - DSIZE - 1)

\* The last call handed a block to the client.
Returned(op) == last.op = op /\ last.ret \notin {NULL, DIVERGES}

\* C1: the payload ranges [p, p + size(p) - 8) of any two distinct blocks the
\* client holds are disjoint.
C1_PayloadsDisjoint ==
    \A p, q \in DOMAIN held : p # q => Payload(p) \cap Payload(q) = {}

C1_TwoBlocksHeld ==
    /\ Cardinality(DOMAIN held) = 2
    /\ Returned("calloc")

\* C2: every non-null pointer malloc, realloc or calloc returns is a multiple
\* of 8.
C2_ReturnsAligned ==
    \A op \in {"malloc", "realloc", "calloc"} :
        Returned(op) => last.ret % ALIGNMENT = 0

C2_BlockMoved ==
    /\ Returned("realloc")
    /\ last.ptr # NULL
    /\ last.ret # last.ptr

\* max(16, round_up(n + 8, 8))
asize_of_request(n) == MAX(16, 8 * ((n + 8 + 7) \div 8))

\* C3: for n > 0 a non-null result of malloc(n) is an allocated block of size
\* at least max(16, round_up(n + 8, 8)), whose payload holds n bytes.
C3_BlockHoldsRequest ==
    (Returned("malloc") /\ last.size > 0) =>
        /\ GET_ALLOC(Cur, HDRP(last.ret)) = 1
        /\ GET_SIZE(Cur, HDRP(last.ret)) >= asize_of_request(last.size)
        /\ GET_SIZE(Cur, HDRP(last.ret)) - DSIZE >= last.size

C3_SmallAndLarge ==
    /\ Returned("malloc")
    /\ last.size = 200
    /\ \E p \in DOMAIN held : held[p] = 1

\* C4: a call of malloc, free, realloc or calloc leaves every byte of the
\* payload of a held block unchanged, unless the call is the free or the
\* realloc of that very block.
C4_PayloadFrame ==
    [][\A p \in DOMAIN held :
          (/\ last'.op \in {"malloc", "free", "realloc", "calloc"}
           /\ last'.ptr # p)
          => \A a \in Payload(p) : mem'[a \div WSIZE] = mem[a \div WSIZE]]_vars

C4_NeighbourReleased ==
    /\ last.op = "free"
    /\ last.ptr # NULL
    /\ \E p \in DOMAIN held : p < last.ptr /\ held[p] = 24

\* No block on the lists fits n bytes and mem_sbrk refuses the extension.
Exhausted(n) ==
    /\ find_fit(Cur, adjusted_size(n)) = NULL
    /\ mem_sbrk(Cur, MAX(adjusted_size(n), CHUNKSIZE)).ret = SBRK_FAIL

\* C5: when no free block fits and the region provider refuses the extension,
\* malloc(n) returns null and leaves the arena, the table, the links and the
\* bounds of the region as they were.
C5_FailedMallocFrame ==
    [][(/\ last'.op = "malloc"
        /\ last'.size > 0
        /\ Exhausted(last'.size))
       => (last'.ret = NULL /\ UNCHANGED HeapVars)]_vars

C5_MallocRefused ==
    /\ last.op = "malloc"
    /\ last.size > 0
    /\ last.ret = NULL
    /\ last.sbrk = 1
    /\ DOMAIN held # {}

\* C6: when realloc(p, n) has to grow and the new block cannot be had, it
\* returns null and the heap, the block at p included, is as it was.
C6_FailedGrowFrame ==
    [][(/\ last'.op = "realloc"
        /\ last'.ptr \in DOMAIN held
        /\ last'.size > 0
        /\ adjusted_size(last'.size) > GET_SIZE(Cur, HDRP(last'.ptr))
        /\ Exhausted(last'.size))
       => (/\ last'.ret = NULL
           /\ UNCHANGED HeapVars
           /\ held' = held
           /\ GET_ALLOC(Cur, HDRP(last'.ptr)) = 1)]_vars

C6_GrowRefused ==
    /\ last.op = "realloc"
    /\ last.ptr \in DOMAIN held
    /\ last.size = 300
    /\ last.ret = NULL
    /\ last.sbrk = 1

\* C7: when its malloc fails because the region is exhausted, calloc returns
\* null and writes nothing, in particular nothing through the null result.
C7_FailedCallocWritesNothing ==
    (last.op = "calloc" /\ last.ret = NULL /\ last.sbrk > 0) =>
        (wild = 0 /\ status = "ready")

\* The product of two size_t values does not fit a size_t.
Overflows(a, b) == \E i \in 9 .. 16 : full_product(a, b)[i] # 0

\* C8: calloc(k, n) returns null when the product k * n overflows size_t.
C8_OverflowIsFailure ==
    (last.op = "calloc" /\ Overflows(last.args[1], last.args[2])) =>
        last.ret = NULL

\* The first k * n bytes at p lie in the region and are zero.
ZeroPrefix(p, k, n) ==
    /\ \A i \in 4 .. 16 : full_product(k, n)[i] = 0
    /\ \A j \in 0 .. (size_t_value(full_product(k, n)) - 1) :
          p + j < mem_brk /\ Byte(p + j) = 0

\* C9: a non-null result of calloc(k, n) is a multiple of 8 and the first
\* k * n bytes there are zero, whatever the block held before.
C9_CallocZeroes ==
    Returned("calloc") =>
        /\ last.ret % ALIGNMENT = 0
        /\ ZeroPrefix(last.ret, last.args[1], last.args[2])

\* C10: malloc(0) returns null, calls the region provider not once and
\* leaves the heap as it was.
C10_MallocZeroFrame ==
    [][(last'.op = "malloc" /\ last'.size = 0)
       => (/\ last'.ret = NULL
           /\ last'.sbrk = 0
           /\ UNCHANGED HeapVars
           /\ held' = held)]_vars

C10_MallocZeroCalled ==
    /\ last.op = "malloc"
    /\ last.size = 0
    /\ DOMAIN held # {}

\* C11: realloc(null, n) returns what malloc(n) returns and leaves the heap
\* malloc(n) leaves; realloc(p, 0) for a held p returns null and leaves the
\* heap free(p) leaves.
C11_ReallocDelegates ==
    [][/\ (last'.op = "realloc" /\ last'.ptr = NULL)
          => (/\ last'.ret = malloc(Cur, last'.size).ret
              /\ SetHeap(malloc(Cur, last'.size).h))
       /\ (last'.op = "realloc" /\ last'.ptr \in DOMAIN held /\ last'.size = 0)
          => (/\ last'.ret = NULL
              /\ SetHeap(free(Cur, last'.ptr))
              /\ last'.ptr \notin DOMAIN held')]_vars

C11_ReallocOfNull ==
    /\ Returned("realloc")
    /\ last.ptr = NULL
    /\ Cardinality(DOMAIN held) = 2

\* The byte at distance p from the anchor in the arena m.
ByteIn(m, p) == (m[p \div WSIZE] \div (256 ^ (p % WSIZE))) % 256

\* p lies in a block the physical walk of the heap h finds free.
InFreeBlock(h, p) ==
    \E blocks \in {heap_blocks(h)} :
        \E i \in DOMAIN blocks :
            /\ GET_ALLOC(h, HDRP(blocks[i])) = 0
            /\ blocks[i] <= p
            /\ p < blocks[i] + GET_SIZE(h, HDRP(blocks[i])) - DSIZE

\* C12: when realloc(p, n) needs more than p's block and succeeds with q, the
\* first old_size - 8 bytes at q are the bytes p's payload held before the
\* call, and p lies in a free block.
C12_GrowKeepsContents ==
    [][(/\ last'.op = "realloc"
        /\ last'.ptr \in DOMAIN held
        /\ last'.size > 0
        /\ adjusted_size(last'.size) > GET_SIZE(Cur, HDRP(last'.ptr))
        /\ last'.ret \notin {NULL, DIVERGES})
       => (/\ \A j \in 0 .. (GET_SIZE(Cur, HDRP(last'.ptr)) - DSIZE - 1) :
                 ByteIn(mem', last'.ret + j) = ByteIn(mem, last'.ptr + j)
           /\ last'.ret # last'.ptr
           /\ InFreeBlock(Cur', last'.ptr)
           /\ last'.ptr \notin DOMAIN held')]_vars

C12_GrownWithContents ==
    /\ Returned("realloc")
    /\ last.ptr \notin {NULL, last.ret}
    /\ last.size = 300
    /\ ByteIn(mem, last.ret) = FillByte(0)

\* C13: for a held p and n > 0 whose adjusted size is at most the size of
\* p's block, realloc(p, n) returns p, makes no call to the region provider
\* and leaves the first min(n, old_size - 8) bytes of the payload as they were.
C13_ShrinkInPlace ==
    [][(/\ last'.op = "realloc"
        /\ last'.ptr \in DOMAIN held
        /\ last'.size > 0
        /\ adjusted_size(last'.size) <= GET_SIZE(Cur, HDRP(last'.ptr)))
       => (/\ last'.ret = last'.ptr
           /\ last'.sbrk = 0
           /\ last'.ptr \in DOMAIN held'
           /\ \A j \in 0 .. (GET_SIZE(Cur, HDRP(last'.ptr)) - DSIZE - 1) :
                 j < last'.size
                 => ByteIn(mem', last'.ptr + j) = ByteIn(mem, last'.ptr + j))]_vars

C13_Shrunk ==
    /\ Returned("realloc")
    /\ last.ret = last.ptr
    /\ last.size = 24
    /\ GET_SIZE(Cur, HDRP(last.ptr)) = 32
    /\ InFreeBlock(Cur, last.ptr + 32)
    /\ held[last.ptr] = 24

\* The bytes mm_init asks of the region provider in all.
init_bytes == table_bytes + 4 * WSIZE + CHUNKSIZE

\* C14: mm_init returns 0 when the region provider grants its three
\* extensions and -1 when it refuses one, and writes nothing through the
\* result of a refused extension.
C14_InitStatus ==
    last.op = "mm_init" =>
        /\ wild = 0
        /\ status # "crashed"
        /\ last.ret = IF mem_max_addr >= init_bytes THEN 0 ELSE -1

\* The blocks between prologue and epilogue, in address order.
Blocks == heap_blocks(Cur)

\* The header word of the block at bp without its allocated bit.
TagSize(bp) == GET(Cur, HDRP(bp)) - GET_ALLOC(Cur, HDRP(bp))

\* C15: after mm_init and after every call every block between prologue and
\* epilogue has a header word equal to its footer word and a size that is a
\* multiple of 8 and at least 16.
C15_BlocksWellFormed ==
    status = "ready" =>
        \A i \in DOMAIN Blocks :
            /\ GET(Cur, HDRP(Blocks[i])) = GET(Cur, FTRP(Cur, Blocks[i]))
            /\ TagSize(Blocks[i]) % 8 = 0
            /\ TagSize(Blocks[i]) >= 2 * DSIZE

C15_SplitAndFilled ==
    /\ status = "ready"
    /\ Len(Blocks) >= 3
    /\ last.op = "write"
    /\ \E i \in DOMAIN Blocks : GET_ALLOC(Cur, HDRP(Blocks[i])) = 0

\* The places <<index, j>> of the class lists that name the block bp.
Places(lists, bp) ==
    {pl \in UNION {{<<index, j>> : j \in DOMAIN lists[index]} : index \in 0..MAXLIST} :
        lists[pl[1]][pl[2]] = bp}

FreeBlocks(blocks) == {i \in DOMAIN blocks : GET_ALLOC(Cur, HDRP(blocks[i])) = 0}

\* C16: after every public operation each free block is reachable from exactly
\* one class head, exactly once, in the class computed from its current size;
\* no allocated block is reachable from any head, and the class lists hold as
\* many blocks as the physical walk finds free.
C16_FreeBlocksListed ==
    status = "ready" =>
        \E blocks \in {Blocks} : \E lists \in {class_lists(Cur)} :
            /\ \A i \in DOMAIN blocks :
                IF GET_ALLOC(Cur, HDRP(blocks[i])) = 0
                THEN /\ Cardinality(Places(lists, blocks[i])) = 1
                     /\ \A pl \in Places(lists, blocks[i]) :
                            pl[1] = class_index(0, GET_SIZE(Cur, HDRP(blocks[i])))
                ELSE Places(lists, blocks[i]) = {}
            /\ TotalLen(lists, 0) = Cardinality(FreeBlocks(blocks))

C16_TwoClassesInUse ==
    /\ status = "ready"
    /\ DOMAIN held # {}
    /\ \E lists \in {class_lists(Cur)} :
           Cardinality({index \in 0..MAXLIST : lists[index] # <<>>}) = 2

\* C17: after mm_init and after every malloc, free, realloc and calloc no two
\* physically adjacent blocks are both free.
C17_NoAdjacentFree ==
    status = "ready" =>
        \E blocks \in {Blocks} :
            \A i \in DOMAIN blocks :
                (i + 1) \in DOMAIN blocks =>
                    ~ (/\ GET_ALLOC(Cur, HDRP(blocks[i])) = 0
                       /\ GET_ALLOC(Cur, HDRP(blocks[i + 1])) = 0)

\* A free has merged the block with the free block before it.
C17_MergedBackwards ==
    /\ status = "ready"
    /\ last.op = "free"
    /\ \E blocks \in {Blocks} : \E i \in DOMAIN blocks :
           /\ GET_ALLOC(Cur, HDRP(blocks[i])) = 0
           /\ blocks[i] < last.ptr
           /\ last.ptr < blocks[i] + GET_SIZE(Cur, HDRP(blocks[i]))

\* C18: after every public operation every class list is a consistent
\* doubly-linked list: the block named by table[k] has pred = 0, the successor
\* of A has A as its pred, the last block has succ = 0, and every link refers
\* to a block inside the current region bounds.
C18_ListsLinked ==
    status = "ready" =>
        \E blocks \in {Blocks} : \E lists \in {class_lists(Cur)} :
            \A index \in 0..MAXLIST :
                /\ lists[index] # <<>> =>
                       /\ GET(Cur, PRED(lists[index][1])) = 0
                       /\ GET(Cur, SUCC(lists[index][Len(lists[index])])) = 0
                /\ \A j \in DOMAIN lists[index] :
                       /\ in_heap(Cur, lists[index][j])
                       /\ \E i \in DOMAIN blocks : blocks[i] = lists[index][j]
                       /\ (j + 1) \in DOMAIN lists[index] =>
                              GET(Cur, PRED(lists[index][j + 1])) = lists[index][j]

C18_ListOfTwo ==
    /\ status = "ready"
    /\ \E index \in 0..MAXLIST : Len(class_list(Cur, index)) = 2

\* The bytes mm_init lays out around the blocks: the table of list heads, the
\* alignment pad, the prologue header and footer, and the epilogue header.
region_overhead == table_bytes + 4 * WSIZE

RECURSIVE SumSizes(_, _)
SumSizes(blocks, i) ==
    IF i > Len(blocks)
    THEN 0
    ELSE GET_SIZE(Cur, HDRP(blocks[i])) + SumSizes(blocks, i + 1)

\* C19: after every public operation the blocks tile the heap: the walk by
\* header sizes starts right after the prologue, reaches the epilogue header
\* at the end of the region, and the block sizes add up to the region size
\* minus the table, the pad, the prologue and the epilogue.
C19_BlocksTile ==
    status = "ready" =>
        \E blocks \in {Blocks} :
            /\ blocks # <<>>
            /\ blocks[1] = region_overhead
            /\ \A i \in DOMAIN blocks :
                   blocks[i] + GET_SIZE(Cur, HDRP(blocks[i])) =
                       IF i = Len(blocks) THEN mem_brk ELSE blocks[i + 1]
            /\ SumSizes(blocks, 1) = (mem_brk - mem_heap_lo) - region_overhead

C19_ExtendedAndSplit ==
    /\ status = "ready"
    /\ mem_brk > init_bytes
    /\ Len(Blocks) >= 3

\* C20: after mm_init and after every public operation the prologue header
\* and footer both encode (8, allocated) and the last four bytes of the region
\* are an epilogue header encoding (0, allocated), also after an extension.
C20_PrologueAndEpilogue ==
    status = "ready" =>
        /\ GET(Cur, heap_listp - WSIZE) = PACK(DSIZE, 1)
        /\ GET(Cur, heap_listp) = PACK(DSIZE, 1)
        /\ GET(Cur, mem_heap_hi(Cur) - 3) = PACK(0, 1)

C20_EpilogueMoved ==
    /\ status = "ready"
    /\ last.op \in {"malloc", "calloc", "realloc"}
    /\ last.sbrk = 1
    /\ last.ret \notin {NULL, DIVERGES}
    /\ mem_brk > init_bytes

\* C21: p = malloc(n); free(p); q = malloc(n) with n > 0, both allocations
\* succeeding and no other call in between, yields q = p.  The client has
\* filled the block malloc(n) gave it (last.op = "write") and releases it; the
\* malloc(n) that follows returns the same pointer or fails.
C21_ReleasedBlockReused ==
    [][(/\ last.op = "write"
        /\ last.size > 0
        /\ last'.op = "free"
        /\ last'.ptr = last.ptr)
       => \E q \in {malloc(Cur', last.size).ret} :
              q \in {NULL, DIVERGES, last.ptr}]_vars

\* The second malloc has returned a block that still carries, beyond the two
\* link words, what the client stored in it before releasing it.
C21_SamePointerAgain ==
    /\ Returned("malloc")
    /\ last.size = 180
    /\ allocs = 2
    /\ DOMAIN held = {last.ret}
    /\ ByteIn(mem, last.ret + DSIZE) = FillByte(DSIZE)

\* C22: mm_checkheap takes none of its error branches on the heap reached
\* after mm_init and after any sequence of valid malloc, free, realloc and
\* calloc calls.
C22_CheckerPasses ==
    status = "ready" => mm_checkheap(Cur) = {}

\* realloc has moved a block: a hole, the new block and a free remainder.
C22_CheckedAfterMove ==
    /\ status = "ready"
    /\ Returned("realloc")
    /\ last.ptr \notin {NULL, last.ret}
    /\ Len(Blocks) >= 3
    /\ checkfreeblocks(Cur).freecount = 2

\* C23: whenever every block returned by malloc, realloc or calloc has been
\* released, in any order, the heap is one free block spanning everything
\* between prologue and epilogue, and that block is the only entry of all the
\* class lists.
C23_AllReleasedOneBlock ==
    (status = "ready" /\ DOMAIN held = {}) =>
        \E blocks \in {Blocks} : \E lists \in {class_lists(Cur)} :
            /\ Len(blocks) = 1
            /\ blocks[1] = heap_listp + DSIZE
            /\ GET_ALLOC(Cur, HDRP(blocks[1])) = 0
            /\ blocks[1] + GET_SIZE(Cur, HDRP(blocks[1])) = mem_brk
            /\ TotalLen(lists, 0) = 1
            /\ \E index \in 0..MAXLIST : lists[index] = <<blocks[1]>>

\* Two blocks were handed out, the heap was extended, and the block at the
\* lower address was the last to be released.
C23_BothReleased ==
    /\ status = "ready"
    /\ DOMAIN held = {}
    /\ allocs = 2
    /\ mem_brk > init_bytes
    /\ last.op = "free"
    /\ last.ptr = heap_listp + DSIZE

\* The smallest k in [0, MAXLIST] with s <= MINLISTSIZE * 2^k, MAXLIST when
\* there is none.
smallest_class(s) ==
    IF \E k \in 0..MAXLIST : s <= MINLISTSIZE * (2 ^ k)
    THEN CHOOSE k \in 0..MAXLIST :
             /\ s <= MINLISTSIZE * (2 ^ k)
             /\ \A j \in 0..(k - 1) : s > MINLISTSIZE * (2 ^ j)
    ELSE MAXLIST

\* C24: for every block size s the class index the shift loop computes is the
\* smallest k in [0, MAXLIST] with s <= MINLISTSIZE * 2^k, and class 0 holds
\* only blocks of the minimum size, 16 bytes.
C24_ClassIsSmallestBound ==
    status = "ready" =>
        \E blocks \in {Blocks} :
            /\ \A i \in DOMAIN blocks :
                   class_index(0, GET_SIZE(Cur, HDRP(blocks[i]))) =
                       smallest_class(GET_SIZE(Cur, HDRP(blocks[i])))
            /\ \E list \in {class_list(Cur, 0)} :
                   \A j \in DOMAIN list : GET_SIZE(Cur, HDRP(list[j])) = 2 * DSIZE

\* C25: the class lists hold the size ranges the header comment documents:
\* freeblocklist[0] only free blocks of size <= 16, and freeblocklist[k] for
\* k >= 1 only free blocks with 2^(k+3) < size <= 2^(k+4).
C25_DocumentedRanges ==
    status = "ready" =>
        \E lists \in {class_lists(Cur)} :
            \A index \in 0..MAXLIST : \A j \in DOMAIN lists[index] :
                \E size \in {GET_SIZE(Cur, HDRP(lists[index][j]))} :
                    IF index = 0
                    THEN size <= LIST_MAX_SIZE(0)
                    ELSE LIST_MIN_SIZE(index) < size /\ size <= LIST_MAX_SIZE(index)

\* The adjusted sizes a request can have within the arena.
FitSizes == {asize \in (2 * DSIZE)..MaxHeap : asize % DSIZE = 0}

\* The places <<index, j>> from class k upwards whose block holds asize bytes.
Fits(lists, k, asize) ==
    {pl \in UNION {{<<index, j>> : j \in DOMAIN lists[index]} : index \in k..MAXLIST} :
        GET_SIZE(Cur, HDRP(lists[pl[1]][pl[2]])) >= asize}

\* The first of them in the order of the scan: lowest class, then nearest to
\* the head.
FirstFit(lists, k, asize) ==
    LET fits == Fits(lists, k, asize)
    IN  IF fits = {}
        THEN NULL
        ELSE LET pl == CHOOSE x \in fits : \A y \in fits :
                           x[1] < y[1] \/ (x[1] = y[1] /\ x[2] <= y[2])
             IN  lists[pl[1]][pl[2]]

\* C26: find_fit(asize) returns the first block of size >= asize met when the
\* lists of the classes k, k+1, ..., MAXLIST are walked from their heads, k
\* being the class computed from asize, and null only when there is none.
C26_FindFitIsFirstFit ==
    status = "ready" =>
        \E lists \in {class_lists(Cur)} :
            \A asize \in FitSizes :
                find_fit(Cur, asize) = FirstFit(lists, class_index(0, asize), asize)

\* A list of two whose head is too small for a request the second block
\* holds: the scan passes the head.
C26_HeadPassedOver ==
    /\ status = "ready"
    /\ \E index \in 0..MAXLIST : \E list \in {class_list(Cur, index)} :
           /\ Len(list) = 2
           /\ GET_SIZE(Cur, HDRP(list[1])) < GET_SIZE(Cur, HDRP(list[2]))
           /\ class_index(0, GET_SIZE(Cur, HDRP(list[2]))) = index
           /\ find_fit(Cur, GET_SIZE(Cur, HDRP(list[2]))) = list[2]

\* C27: malloc(n) asks the region provider for more only when no free block
\* of the heap holds asize bytes; a free block that fits is never passed over
\* for an extension, and without one the heap is extended.
C27_ExtendsOnlyWithoutFit ==
    [][(last'.op = "malloc" /\ last'.size > 0)
       => \E blocks \in {Blocks} :
              (last'.sbrk > 0) <=>
                  (\A i \in DOMAIN blocks :
                       GET_ALLOC(Cur, HDRP(blocks[i])) = 0 =>
                           GET_SIZE(Cur, HDRP(blocks[i])) < adjusted_size(last'.size))]_vars

\* The free block at the end of the heap was too small: malloc extended the
\* heap and the block it returned starts in the old region.
C27_ExtendedOverSmallBlock ==
    /\ Returned("malloc")
    /\ last.sbrk = 1
    /\ last.ret < init_bytes
    /\ last.ret + adjusted_size(last.size) > init_bytes

\* The block bp is on none of the class lists of h.
Unlisted(h, bp) ==
    \A index \in 0..MAXLIST : \E list \in {class_list(h, index)} :
        \A j \in DOMAIN list : list[j] # bp

\* What place(bp, asize) has to leave in h2, started on the free block bp of
\* csize bytes.
Placed(h2, bp, csize, asize) ==
    /\ Unlisted(h2, bp)
    /\ IF csize - asize > MINLISTSIZE
       THEN /\ GET(h2, HDRP(bp)) = PACK(asize, 1)
            /\ GET(h2, bp + asize - DSIZE) = PACK(asize, 1)
            /\ GET(h2, HDRP(bp + asize)) = PACK(csize - asize, 0)
            /\ GET(h2, bp + csize - DSIZE) = PACK(csize - asize, 0)
            /\ \E list \in {class_list(h2, class_index(0, csize - asize))} :
                   \E j \in DOMAIN list : list[j] = bp + asize
            /\ checkfreeblocks(h2).freecount = checkfreeblocks(Cur).freecount
       ELSE /\ GET(h2, HDRP(bp)) = PACK(csize, 1)
            /\ GET(h2, bp + csize - DSIZE) = PACK(csize, 1)
            /\ checkfreeblocks(h2).freecount = checkfreeblocks(Cur).freecount - 1

C29_PlaceSplitsAboveMinBlock ==
    status = "ready" =>
        \E blocks \in {Blocks} :
            \A i \in FreeBlocks(blocks) :
                \E csize \in {GET_SIZE(Cur, HDRP(blocks[i]))} :
                    \A asize \in {a \in FitSizes : a <= csize} :
                        GET(place(Cur, blocks[i], asize), HDRP(blocks[i])) =
                            IF csize - asize > 2 * DSIZE
                            THEN PACK(asize, 1)
                            ELSE PACK(csize, 1)

\* The two tag words of the block bp of h.
Tags(h, bp) == <<GET(h, HDRP(bp)), GET(h, FTRP(h, bp))>>

\* C30: coalesce on a just-freed block leaves a free block that spans bp and
\* each physically adjacent neighbour that was free: its size is the sum of
\* the merged sizes, it starts at the previous block when that one was free
\* and at bp otherwise, header and footer hold the sum with allocated bit 0,
\* and the tags of no other block change.
C30_CoalesceSpans ==
    [][(last'.op = "free" /\ last'.ptr \in DOMAIN held)
       => \E blocks \in {Blocks} : \E i \in DOMAIN blocks :
            /\ blocks[i] = last'.ptr
            /\ LET prevfree == i > 1 /\ GET_ALLOC(Cur, HDRP(blocks[IF i > 1 THEN i - 1 ELSE i])) = 0
                   nextfree == i < Len(blocks)
                                   /\ GET_ALLOC(Cur, HDRP(blocks[IF i < Len(blocks) THEN i + 1 ELSE i])) = 0
                   start == IF prevfree THEN blocks[i - 1] ELSE blocks[i]
                   sum == GET_SIZE(Cur, HDRP(blocks[i]))
                          + (IF prevfree THEN GET_SIZE(Cur, HDRP(blocks[i - 1])) ELSE 0)
                          + (IF nextfree THEN GET_SIZE(Cur, HDRP(blocks[i + 1])) ELSE 0)
                   merged == {i} \cup (IF prevfree THEN {i - 1} ELSE {})
                                 \cup (IF nextfree THEN {i + 1} ELSE {})
               IN  /\ GET(Cur', HDRP(start)) = PACK(sum, 0)
                   /\ GET(Cur', start + sum - DSIZE) = PACK(sum, 0)
                   /\ \E j \in DOMAIN Blocks' : Blocks'[j] = start
                   /\ \A j \in (DOMAIN blocks) \ merged :
                          Tags(Cur', blocks[j]) = Tags(Cur, blocks[j])
                   /\ Len(Blocks') = Len(blocks) - Cardinality(merged) + 1]_vars

\* The block released last lay between two free blocks: the one free block
\* left starts before it and ends beyond the end its stale header gives.
C30_MergedBothSides ==
    /\ status = "ready"
    /\ last.op = "free"
    /\ last.ptr > heap_listp + DSIZE
    /\ Len(Blocks) = 1
    /\ GET_ALLOC(Cur, HDRP(Blocks[1])) = 0
    /\ last.ptr + GET_SIZE(Cur, HDRP(last.ptr)) < mem_brk

\* The blocks coalesce(bp) merges on the heap h: bp and its free neighbours.
Constituents(h, bp) ==
    {bp} \cup (IF prev_alloc(h, bp) = 0 THEN {PREV_BLKP(h, bp)} ELSE {})
         \cup (IF next_alloc(h, bp) = 0 THEN {NEXT_BLKP(h, bp)} ELSE {})

\* The number of places of the class lists of h that name bp.
TimesListed(h, bp) == Cardinality(Places(class_lists(h), bp))

\* C31: in every merging case of coalesce the merged block is inserted into
\* a class list exactly once, only after both its header and its footer hold
\* the merged size, and into the class of the merged size; none of the
\* constituent blocks remains on any list.  h3 is the heap on which free
\* calls coalesce, m the point of coalesce right before its insertnode.
C31_MergedInsertedOnce ==
    status = "ready" =>
        \A p \in DOMAIN held :
            \E h3 \in {free_listed(Cur, p)} :
                (prev_alloc(h3, p) = 0 \/ next_alloc(h3, p) = 0) =>
                    \E m \in {coalesce_merge(h3, p)} : \E r \in {coalesce(h3, p)} :
                        /\ GET(m.h, HDRP(m.bp)) = PACK(m.size, 0)
                        /\ GET(m.h, m.bp + m.size - DSIZE) = PACK(m.size, 0)
                        /\ \A x \in Constituents(h3, p) : TimesListed(m.h, x) = 0
                        /\ checkfreeblocks(r.h).freecount = checkfreeblocks(m.h).freecount + 1
                        /\ r.ret = m.bp
                        /\ \E pl \in Places(class_lists(r.h), m.bp) :
                               /\ pl[1] = class_index(0, m.size)
                               /\ Places(class_lists(r.h), m.bp) = {pl}
                        /\ \A x \in Constituents(h3, p) \ {m.bp} : TimesListed(r.h, x) = 0

\* A held block lies between two free blocks: releasing it takes the case of
\* coalesce that merges three blocks.
C31_ThreeToMerge ==
    /\ status = "ready"
    /\ \E p \in DOMAIN held : \E h3 \in {free_listed(Cur, p)} :
           /\ prev_alloc(h3, p) = 0
           /\ next_alloc(h3, p) = 0
           /\ coalesce(h3, p).ret < p

\* deletenode(bp) is called on h while bp is on the list of the class its
\* header gives, and takes it off: the head of that class is the successor
\* when bp was the head, and the lists have one block less.
DeletedFromOwnClass(h, bp) ==
    \E k \in {class_index(0, GET_SIZE(h, HDRP(bp)))} :
    \E list \in {class_list(h, k)} :
    \E h1 \in {deletenode(h, bp)} :
        /\ \E j \in DOMAIN list : list[j] = bp
        /\ TimesListed(h, bp) = 1
        /\ list[1] = bp => GET(h1, h1.freeblocklist + WSIZE * k) = GET(h, SUCC(bp))
        /\ TimesListed(h1, bp) = 0
        /\ checkfreeblocks(h1).freecount = checkfreeblocks(h).freecount - 1

\* C32: every call of deletenode(bp), from place and from each case of
\* coalesce, happens while bp's header holds the size with which bp was
\* inserted, so the class it recomputes is the list bp is on.  place is
\* called on a free block of the heap; coalesce unlinks bp, then the previous
\* block, then the next one, on the heap h3 free hands to it.
C32_DeletedWithInsertedSize ==
    status = "ready" =>
        /\ \E blocks \in {Blocks} :
               \A i \in FreeBlocks(blocks) : DeletedFromOwnClass(Cur, blocks[i])
        /\ \A p \in DOMAIN held :
               \E h3 \in {free_listed(Cur, p)} :
               \E prev \in {prev_alloc(h3, p)} : \E next \in {next_alloc(h3, p)} :
                   (prev = 0 \/ next = 0) =>
                       \E h1 \in {deletenode(h3, p)} :
                           /\ DeletedFromOwnClass(h3, p)
                           /\ prev = 0 => DeletedFromOwnClass(h1, PREV_BLKP(h1, p))
                           /\ (prev = 1 /\ next = 0) =>
                                  DeletedFromOwnClass(h1, NEXT_BLKP(h1, p))
                           /\ (prev = 0 /\ next = 0) =>
                                  \E h2 \in {deletenode(h1, PREV_BLKP(h1, p))} :
                                      DeletedFromOwnClass(h2, NEXT_BLKP(h2, p))

\* A held block with a free block before it that heads a list of two:
\* releasing the held block unlinks a head that has a successor.
C32_HeadWithSuccessorUnlinked ==
    /\ status = "ready"
    /\ \E p \in DOMAIN held : \E h3 \in {free_listed(Cur, p)} :
           /\ prev_alloc(h3, p) = 0
           /\ \E index \in 0..MAXLIST : \E list \in {class_list(deletenode(h3, p), index)} :
                  /\ Len(list) = 2
                  /\ list[1] = PREV_BLKP(h3, p)

\* Requests that adjust to less than the size old of the block.
ShrinkRequests(old) == {a - DSIZE : a \in {f \in FitSizes : f < old}}

\* C33: in the shrink path of realloc(p, n), asize < old size: with
\* old - asize <= 16 the block is left completely unchanged; otherwise p's
\* header and footer become (asize, 1), the trailing old - asize bytes become
\* a free block on a class list, coalesced with a free physical successor,
\* and the checker finds the heap consistent.  Checked for every held block
\* of a reachable heap and every such request.
C33_ShrinkSplitsOrKeeps ==
    status = "ready" =>
        \A p \in DOMAIN held :
            \E old \in {GET_SIZE(Cur, HDRP(p))} :
            \E follows \in {IF next_alloc(Cur, p) = 0
                            THEN GET_SIZE(Cur, HDRP(NEXT_BLKP(Cur, p))) ELSE 0} :
                \A n \in ShrinkRequests(old) :
                    \E asize \in {adjusted_size(n)} : \E r \in {realloc(Cur, p, n)} :
                        /\ asize < old
                        /\ r.ret = p
                        /\ IF old - asize <= 2 * DSIZE
                           THEN r.h = Cur
                           ELSE /\ GET(r.h, HDRP(p)) = PACK(asize, 1)
                                /\ GET(r.h, p + asize - DSIZE) = PACK(asize, 1)
                                /\ Tags(r.h, p + asize) =
                                       <<PACK(old - asize + follows, 0),
                                         PACK(old - asize + follows, 0)>>
                                /\ TimesListed(r.h, p + asize) = 1
                                /\ mm_checkheap(r.h) = {}

\* realloc has cut a block of 120 bytes down to 16: the free block behind it
\* reaches the end of the heap and still holds what the client had stored.
C33_CutAndMerged ==
    /\ Returned("realloc")
    /\ last.ret = last.ptr
    /\ last.size = 1
    /\ GET_SIZE(Cur, HDRP(last.ptr)) = 2 * DSIZE
    /\ GET_ALLOC(Cur, HDRP(last.ptr + 2 * DSIZE)) = 0
    /\ last.ptr + 2 * DSIZE + GET_SIZE(Cur, HDRP(last.ptr + 2 * DSIZE)) = mem_brk
    /\ ByteIn(mem, last.ptr + 24) = FillByte(24)

TableWritten(h) == {w \in DOMAIN h.mem : table_init(h).mem[w] # h.mem[w]}

\* C35: the table of MAXLIST + 1 class heads lies inside the bytes mm_init
\* reserved for it: every table word mm_init writes is below the end of the
\* region at the time of the write, and after mm_init no table entry shares
\* its word with the alignment pad, the prologue, the epilogue or a block.
C35_TableInsideReserve ==
    [][(last'.op = "mm_init" /\ status' = "ready")
       => /\ \E r \in {mem_sbrk(Cur, table_bytes)} :
                 \A w \in TableWritten([r.h EXCEPT !.freeblocklist = r.ret]) :
                     WSIZE * w + WSIZE <= r.h.mem_brk
          /\ \A i \in 0..MAXLIST :
                 freeblocklist' + WSIZE * i + WSIZE <= heap_listp' - 2 * WSIZE]_vars

\* The heap h with the listed block a tagged allocated in header and footer
\* and left on its list, and the free block b taken off its list: the heap a
\* `place` would leave that tags one block and unlinks another.
TaggedWhileListed(h, a, b) ==
    Bind([size \in {GET_SIZE(h, HDRP(a))} |->
    Bind([h1 \in {PUT(h, HDRP(a), PACK(size, 1))} |->
    Bind([h2 \in {PUT(h1, FTRP(h1, a), PACK(size, 1))} |->
    deletenode(h2, b)])])])

\* Some class list of h has a member whose header has the allocated bit set.
AllocatedMember(h) ==
    \E lists \in {class_lists(h)} :
        \E index \in 0..MAXLIST : \E j \in DOMAIN lists[index] :
            GET_ALLOC(h, HDRP(lists[index][j])) = 1

\* C36: for any heap in which some class list has a member whose header has
\* the allocated bit set, mm_checkheap with checkfreeblocks reports a
\* violation.
C36_CheckerSeesAllocatedMember ==
    status = "ready" =>
        \E blocks \in {Blocks} :
            \A i, j \in FreeBlocks(blocks) :
                i # j =>
                    \E h2 \in {TaggedWhileListed(Cur, blocks[i], blocks[j])} :
                        AllocatedMember(h2) => mm_checkheap(h2) # {}

\* The members of a list are pairwise different blocks.
NoRepeat(list) == \A j, k \in DOMAIN list : list[j] = list[k] => j = k

\* Following succ from the block at offset next reaches the null offset 0 in
\* at most `steps` steps.
RECURSIVE EndsWithin(_, _, _)
EndsWithin(h, next, steps) ==
    IF next = 0 THEN TRUE
    ELSE IF steps = 0 THEN FALSE
    ELSE EndsWithin(h, GET(h, SUCC(next)), steps - 1)

\* C37: in every reachable state each class list is acyclic and finite:
\* following succ from table[k] reaches the null offset 0 in at most as many
\* steps as there are free blocks, so the search of find_fit ends for every
\* size, and no call of malloc, realloc or calloc fails to return.
C37_ListsEnd ==
    /\ status # "hung"
    /\ status = "ready" =>
           /\ \E steps \in {Cardinality(FreeBlocks(Blocks))} :
                  \A index \in 0..MAXLIST :
                      EndsWithin(Cur, GET(Cur, freeblocklist + WSIZE * index), steps)
           /\ \A index \in 0..MAXLIST : NoRepeat(class_list(Cur, index))
           /\ \A s \in FitSizes : find_fit(Cur, s) # DIVERGES

\* A search that follows a list of two blocks to its end without a fit.
C37_WalkedToTheEnd ==
    /\ status = "ready"
    /\ \E index \in 0..MAXLIST :
           /\ Len(class_list(Cur, index)) = 2
           /\ \E s \in FitSizes :
                  /\ class_index(0, s) = index
                  /\ find_valid_block(Cur, s, index) = NULL

\* The requests whose adjusted sizes are the block sizes up to the heap bound.
SlackRequests == {asize - DSIZE : asize \in FitSizes}

\* C38: immediately after a successful malloc(n) the size of the returned
\* block exceeds asize = max(16, round_up(n + 8, 8)) by at most MINLISTSIZE
\* bytes, whether the block came from a class list or from a fresh extension
\* of the heap; the same holds of malloc applied to every reachable heap.
C38_SlackBounded ==
    /\ (Returned("malloc") /\ last.size > 0) =>
           (GET_SIZE(Cur, HDRP(last.ret)) - asize_of_request(last.size))
               \in 0..MINLISTSIZE
    /\ status = "ready" =>
           \A n \in SlackRequests :
               \E r \in {malloc(Cur, n)} :
                   r.ret \notin {NULL, DIVERGES} =>
                       (GET_SIZE(r.h, HDRP(r.ret)) - asize_of_request(n))
                           \in 0..MINLISTSIZE

\* A heap on which malloc extends the region and hands out a block larger than
\* asize.
C38_SlackAfterExtension ==
    /\ status = "ready"
    /\ \E n \in SlackRequests :
           \E r \in {malloc(Cur, n)} :
               /\ r.ret \notin {NULL, DIVERGES}
               /\ r.h.sbrk_calls > 0
               /\ GET_SIZE(r.h, HDRP(r.ret)) > asize_of_request(n)

====
